---------------------------- MODULE Spec2Model ----------------------------
(***************************************************************************)
(* The multi-signal content ranking engine of src/src/ranking:             *)
(* ContentEmbedder, RelevanceScorer, RankAggregator, ContentSelector and   *)
(* RankingSystem.                                                          *)
(*                                                                         *)
(* Python values.  A dict is a TLA+ function from its keys (the keys it    *)
(* holds are its DOMAIN).  Every other polymorphic value (a query or chunk *)
(* argument that may be None, a str, an int, a list) is a record tagged    *)
(* with py_type.  Values stored under one key always have one type: text   *)
(* is a string, an embedding a vector, a score an integer.                 *)
(*                                                                         *)
(* Floats.  A score s is the integer s * Scale; a weight w is w * WScale.  *)
(* Divisions round down to the unit.                                       *)
(*                                                                         *)
(* Vectors.  A list of floats of length dim is [dim, pat]: a block of 16    *)
(* numbers tiled to length dim, which is how _mock_embedding builds its    *)
(* vectors from the 16 bytes of a digest.  pat holds the two leading       *)
(* numbers of the block, the other 14 being 0.0; dim = 0 is the empty list.*)
(***************************************************************************)
EXTENDS Integers, Sequences, FiniteSets, TLC

VARIABLES
    api_key,    \* ContentEmbedder.api_key is non-empty
    model,      \* ContentEmbedder.model: "None" or "loaded"
    weights,    \* RankAggregator.weights
    config,     \* RankingSystem.config
    metrics,    \* RankingSystem.metrics
    now,        \* the day datetime.now() falls on
    pc,         \* "idle", or "returned" while a caller holds the last result
    call,       \* the last call: its arguments, what it did, what it returned
    threads     \* the callers that share the engine, each inside rank_content

vars == <<api_key, model, weights, config, metrics, now, pc, call, threads>>

---------------------------------------------------------------------------
(* Bounds of the model *)

MaxChunks == 2
MaxCalls == 1
MaxRanked == 3
MaxDays == 2
MaxListed == 11
MaxCallers == 2

(* Fixed-point units *)
Scale == 10000
WScale == 1000
SqrtPrecision == 100

(* Program constants *)
EmbeddingDim == 1536
YearDays == 365
DecayYears == 5
DefaultTopN == 10

---------------------------------------------------------------------------
(* Python values *)

PyNone == [py_type |-> "NoneType"]
PyStr(s) == [py_type |-> "str", value |-> s]
PyInt(n) == [py_type |-> "int", value |-> n]
PyList(xs) == [py_type |-> "list", items |-> xs]

EmptyDict == [k \in {} |-> 0]

IsDict(x) == "py_type" \notin DOMAIN x
IsStr(x) == ~IsDict(x) /\ x.py_type = "str"
IsList(x) == ~IsDict(x) /\ x.py_type = "list"

\* bool(x)
Truthy(x) ==
    IF IsDict(x) THEN DOMAIN x # {}
    ELSE CASE x.py_type = "NoneType" -> FALSE
           [] x.py_type = "str" -> x.value # ""
           [] x.py_type = "int" -> x.value # 0
           [] x.py_type = "list" -> x.items # <<>>

\* d.get(k, default)
Get(d, k, default) == IF k \in DOMAIN d THEN d[k] ELSE default

\* d[k] = v
Put(d, k, v) == [x \in (DOMAIN d) \cup {k} |-> IF x = k THEN v ELSE d[x]]

Max(a, b) == IF a >= b THEN a ELSE b
Min(a, b) == IF a <= b THEN a ELSE b

---------------------------------------------------------------------------
(* Vectors *)

EmptyVec == [dim |-> 0, pat |-> <<>>]
Vec(d, a, b) == [dim |-> d, pat |-> <<a, b>>]

RECURSIVE DotFrom(_, _, _)
DotFrom(p, q, i) == IF i > Len(p) THEN 0 ELSE p[i] * q[i] + DotFrom(p, q, i + 1)
Dot(p, q) == DotFrom(p, q, 1)

RECURSIVE SqrtSearch(_, _, _)
SqrtSearch(n, lo, hi) ==
    IF lo >= hi THEN lo
    ELSE LET mid == (lo + hi + 1) \div 2
         IN IF mid * mid <= n THEN SqrtSearch(n, mid, hi) ELSE SqrtSearch(n, lo, mid - 1)
ISqrt(n) == SqrtSearch(n, 0, Min(n, 46340))


\* np.dot(vec1, vec2) / (norm1 * norm2) for two lists of one length: the
\* tile count cancels, so the quotient is that of the two patterns.
Cosine(p, q) ==
    (Dot(p, q) * Scale * SqrtPrecision)
        \div ISqrt(Dot(p, p) * Dot(q, q) * SqrtPrecision * SqrtPrecision)

---------------------------------------------------------------------------
(* Texts, and what the three embedding methods make of them *)

QueryText == "quantum computing cryptography"
RelatedText == "post-quantum cryptography"
UnrelatedText == "classical bits"
\* a str holding a lone surrogate: str.encode() raises UnicodeEncodeError
SurrogateText == "\\ud800"

Texts == {QueryText, RelatedText, UnrelatedText, "", SurrogateText}

\* text.encode() succeeds
Encodable(text) == text # SurrogateText

\* hashlib.md5(text.encode()).digest(): the two leading bytes of the digest
\* of each text of the model, the other 14 being taken as 128
Md5Digest(text) ==
    CASE text = QueryText -> <<198, 118>>
      [] text = RelatedText -> <<186, 53>>
      [] text = UnrelatedText -> <<38, 62>>
      [] OTHER -> <<212, 29>>       \* ""

\* (byte / 128.0) - 1.0, kept in eighths
Normalized(byte) == (byte - 128) \div 16

\* the vector the remote provider (text-embedding-3-small) answers with
ApiVector(text) ==
    CASE text = QueryText -> Vec(EmbeddingDim, 3, 4)
      [] text = RelatedText -> Vec(EmbeddingDim, 4, 3)
      [] text = UnrelatedText -> Vec(EmbeddingDim, -4, 3)
      [] OTHER -> Vec(EmbeddingDim, 5, 0)

\* the vector SentenceTransformer(model_name).encode answers with
LocalModelDim == 384
LocalVector(text) ==
    CASE text = QueryText -> Vec(LocalModelDim, 3, 4)
      [] text = RelatedText -> Vec(LocalModelDim, 4, 3)
      [] text = UnrelatedText -> Vec(LocalModelDim, -4, 3)
      [] OTHER -> Vec(LocalModelDim, 5, 0)

\* What the world does during one embed_content call:
\*   api:    "raise" (requests.post / raise_for_status / json raises),
\*           "nodata" (a response without data), "empty" (an empty
\*           embedding list), "vector"
\*   load:   SentenceTransformer(...) "ok" or "fail"
\*   encode: model.encode "ok" or "fail"
ApiOutcomes == {"raise", "nodata", "empty", "vector"}
EmbedEnvs == [api : ApiOutcomes, load : {"ok", "fail"}, encode : {"ok", "fail"}]

---------------------------------------------------------------------------
(* ContentEmbedder *)

\* A method's outcome: it raised, or returned value (EmptyVec for None)
Returned(v, m) == [raised |-> FALSE, value |-> v, model |-> m]
Raised(m) == [raised |-> TRUE, value |-> EmptyVec, model |-> m]

_api_embedding(text, key, env, m) ==
    IF ~key THEN Returned(EmptyVec, m)
    ELSE CASE env.api = "raise" -> Raised(m)
           [] env.api = "nodata" -> Returned(EmptyVec, m)
           [] env.api = "empty" -> Returned(EmptyVec, m)
           [] env.api = "vector" -> Returned(ApiVector(text), m)

_local_embedding(text, env, m) ==
    IF m = "None" /\ env.load = "fail" THEN Returned(EmptyVec, m)
    ELSE IF env.encode = "fail" THEN Returned(EmptyVec, "loaded")
    ELSE Returned(LocalVector(text), "loaded")

_mock_embedding(text, m) ==
    IF ~Encodable(text) THEN Raised(m)
    ELSE Returned([dim |-> EmbeddingDim,
                   pat |-> [i \in 1..2 |-> Normalized(Md5Digest(text)[i])]], m)

\* embed_content: the first method, in the order api, local, mock, that
\* returns a truthy value decides; a method that raises is skipped; after
\* the loop the mock is called once more, outside any try.
embed_content(text, key, env, m) ==
    LET a == _api_embedding(text, key, env, m)
        l == _local_embedding(text, env, a.model)
        k == _mock_embedding(text, l.model)
    IN IF ~a.raised /\ a.value.dim > 0
       THEN a @@ [method |-> "api", tried |-> <<"api">>]
       ELSE IF ~l.raised /\ l.value.dim > 0
       THEN l @@ [method |-> "local", tried |-> <<"api", "local">>]
       ELSE k @@ [method |-> "mock", tried |-> <<"api", "local", "mock">>]

\* compute_similarity, raised when np.dot meets two lengths
compute_similarity(e1, e2) ==
    IF e1.dim = 0 \/ e2.dim = 0 THEN [raised |-> FALSE, value |-> 0]
    ELSE IF e1.dim # e2.dim THEN [raised |-> TRUE, value |-> 0]
    ELSE IF Dot(e1.pat, e1.pat) = 0 \/ Dot(e2.pat, e2.pat) = 0
         THEN [raised |-> FALSE, value |-> 0]
    ELSE [raised |-> FALSE, value |-> Cosine(e1.pat, e2.pat)]


---------------------------------------------------------------------------
(* RelevanceScorer *)

\* a text of n words in which k of the ten quality indicators occur, written
\* by its two counts
LongText(n, k) == ToString(n) \o " words, " \o ToString(k) \o " indicators"

\* len(text.split()) and the number of the ten quality indicators that
\* occur in text.lower(), tabulated for the texts of the model
WordCount(text) ==
    CASE text = QueryText -> 3
      [] text = RelatedText -> 2
      [] text = UnrelatedText -> 2
      [] text = "" -> 0
      [] text = SurrogateText -> 1
      [] OTHER -> LET ns == {n \in 1..301 : \E k \in 0..10 : text = LongText(n, k)}
                  IN IF ns = {} THEN 1 ELSE CHOOSE n \in ns : TRUE
IndicatorCount(text) ==
    LET ks == IF text \in Texts THEN {}
              ELSE {k \in 0..10 : \E n \in 1..301 : text = LongText(n, k)}
    IN IF ks = {} THEN 0 ELSE CHOOSE k \in ks : TRUE

assess_content_quality(chunk) ==
    LET text == Get(chunk, "text", "")
        word_count == WordCount(text)
        base == IF word_count > 300 THEN Scale
                ELSE IF word_count > 150 THEN (8 * Scale) \div 10
                ELSE IF word_count > 75 THEN (6 * Scale) \div 10
                ELSE (4 * Scale) \div 10
        indicator_count == IndicatorCount(text)
    IN IF indicator_count >= 3 THEN Min(Scale, base + (2 * Scale) \div 10)
       ELSE IF indicator_count >= 1 THEN Min(Scale, base + Scale \div 10)
       ELSE base

\* publication_date values: a str written in format fmt for the day `day`
\* (fmt "" is the empty string), a datetime, or an int
DateStr(fmt, day) == [py_type |-> "str", fmt |-> fmt, day |-> day]
DateTime(day) == [py_type |-> "datetime", fmt |-> "", day |-> day]
DateInt(n) == [py_type |-> "int", fmt |-> "", day |-> n]
NoDate == [py_type |-> "NoneType", fmt |-> "", day |-> 0]

AcceptedFormats == <<"%Y-%m-%d", "%Y/%m/%d", "%Y-%m-%dT%H:%M:%S">>

DateTruthy(d) ==
    CASE d.py_type = "NoneType" -> FALSE
      [] d.py_type = "str" -> d.fmt # ""
      [] d.py_type = "int" -> d.day # 0
      [] OTHER -> TRUE

Neutral == Scale \div 2

\* datetime.strptime(date_str, fmt): the day parsed, or the exception raised
strptime(date_str, fmt) ==
    IF date_str.py_type # "str" THEN [error |-> "TypeError", day |-> 0]
    ELSE IF date_str.fmt = fmt THEN [error |-> "", day |-> date_str.day]
    ELSE [error |-> "ValueError", day |-> 0]

\* the loop over the formats from the i-th on: ValueError moves on to the
\* next format, any other exception leaves the loop; found tells pub_date
\* from None
RECURSIVE parse_date(_, _)
parse_date(date_str, i) ==
    IF i > Len(AcceptedFormats) THEN [error |-> "", found |-> FALSE, day |-> 0]
    ELSE LET p == strptime(date_str, AcceptedFormats[i])
         IN CASE p.error = "" -> [error |-> "", found |-> TRUE, day |-> p.day]
              [] p.error = "ValueError" -> parse_date(date_str, i + 1)
              [] OTHER -> [error |-> p.error, found |-> FALSE, day |-> 0]

\* the function without its outer try: what strptime or the subtraction
\* raises leaves the function
calculate_recency_score_uncaught(chunk, today) ==
    LET metadata == Get(chunk, "metadata", EmptyDict)
        decay == YearDays * DecayYears
    IN IF ~IsDict(metadata) THEN [raised |-> TRUE, value |-> 0]
       ELSE LET date_str == Get(metadata, "publication_date", NoDate)
                pub_date == IF date_str.py_type = "datetime"
                            THEN [error |-> "", found |-> TRUE, day |-> date_str.day]
                            ELSE parse_date(date_str, 1)
            IN IF ~DateTruthy(date_str) THEN [raised |-> FALSE, value |-> Neutral]
               ELSE IF pub_date.error # "" THEN [raised |-> TRUE, value |-> 0]
               ELSE IF ~pub_date.found THEN [raised |-> FALSE, value |-> Neutral]
               ELSE IF date_str.fmt = "aware" THEN [raised |-> TRUE, value |-> 0]
               \* max(0.0, 1.0 - (days_old / 365.0) / 5.0)
               ELSE [raised |-> FALSE,
                     value |-> Max(0, (Scale * (decay - (today - pub_date.day))) \div decay)]

\* the function without max(0.0, ...): the linear decay goes on below 0
calculate_recency_score_unfloored(chunk, today) ==
    LET metadata == Get(chunk, "metadata", EmptyDict)
        decay == YearDays * DecayYears
    IN IF ~IsDict(metadata) THEN [raised |-> TRUE, value |-> 0]
       ELSE LET date_str == Get(metadata, "publication_date", NoDate)
                pub_date == IF date_str.py_type = "datetime"
                            THEN [error |-> "", found |-> TRUE, day |-> date_str.day]
                            ELSE parse_date(date_str, 1)
            IN IF ~DateTruthy(date_str) THEN [raised |-> FALSE, value |-> Neutral]
               ELSE IF pub_date.error # "" THEN [raised |-> FALSE, value |-> Neutral]
               ELSE IF ~pub_date.found THEN [raised |-> FALSE, value |-> Neutral]
               ELSE IF date_str.fmt = "aware" THEN [raised |-> FALSE, value |-> Neutral]
               ELSE [raised |-> FALSE,
                     value |-> (Scale * (decay - (today - pub_date.day))) \div decay]

\* calculate_recency_score(chunk) on day today; chunk is a dict.  raised:
\* an exception leaves the function (metadata.get on a value that is not a
\* dict is outside the try); value: the score returned
calculate_recency_score(chunk, today) ==
    LET metadata == Get(chunk, "metadata", EmptyDict)
        decay == YearDays * DecayYears
    IN IF ~IsDict(metadata) THEN [raised |-> TRUE, value |-> 0]
       ELSE LET date_str == Get(metadata, "publication_date", NoDate)
                pub_date == IF date_str.py_type = "datetime"
                            THEN [error |-> "", found |-> TRUE, day |-> date_str.day]
                            ELSE parse_date(date_str, 1)
            IN IF ~DateTruthy(date_str) THEN [raised |-> FALSE, value |-> Neutral]
               \* except Exception: TypeError of strptime
               ELSE IF pub_date.error # "" THEN [raised |-> FALSE, value |-> Neutral]
               ELSE IF ~pub_date.found THEN [raised |-> FALSE, value |-> Neutral]
               \* except Exception: TypeError of now() - pub_date with a tzinfo
               ELSE IF date_str.fmt = "aware" THEN [raised |-> FALSE, value |-> Neutral]
               \* max(0.0, 1.0 - (days_old / 365.0) / 5.0)
               ELSE [raised |-> FALSE,
                     value |-> Max(0, (Scale * (decay - (today - pub_date.day))) \div decay)]


\* The running state of one pipeline call:
\*   raised  an exception is propagating
\*   out     the list built so far
\*   after   the caller's chunk objects, as the call has left them so far
\*   n       embed_content calls made so far (call k meets envs[k])
\*   model   ContentEmbedder.model
\*   trace   the stage steps taken, in order
\*   embeds  the embed_content calls made, in order
\*   vector  what the last embed_content call returned
\*   query   the query object
\*   selected  what select_top_chunks returned
Step(stage, i) == [stage |-> stage, chunk |-> i]
\* by: the method that called embed_content; who: the chunk's number, 0 for
\* the query; at: the number of stage steps taken before the call; value:
\* the vector returned
EmbedCall(by, who, text, e, at) ==
    [by |-> by, who |-> who, text |-> text, raised |-> e.raised, method |-> e.method,
     dim |-> e.value.dim, at |-> at, value |-> e.value]

\* the state after embed_content(text) has answered e
Embedded(st, by, who, text, e) ==
    [st EXCEPT !.n = @ + 1, !.model = e.model, !.raised = e.raised, !.vector = e.value,
               !.embeds = Append(@, EmbedCall(by, who, text, e, Len(st.trace)))]

\* self.embedder.embed_content(text), called by `by` for chunk `who`
Embed(st, by, who, text, key, envs) ==
    Embedded(st, by, who, text, embed_content(text, key, envs[st.n + 1], st.model))

MinimalRelevance == Scale \div 10

\* One iteration of score_chunks' loop on chunk number i (a dict), from the
\* point where chunk_embedding is known; st1 is the state at that point.
score_embedded(st1, qe, chunk, i, chunk_embedding) ==
    LET has_md == "metadata" \in DOMAIN chunk
        metadata == Get(chunk, "metadata", EmptyDict)
        similarity == compute_similarity(qe, chunk_embedding)
        minimal == Put(metadata, "relevance_score", MinimalRelevance)
        scored == Put(Put(Put(metadata, "relevance_score", similarity.value),
                          "quality_score", assess_content_quality(chunk)),
                      "embedding", chunk_embedding)
        \* metadata is the caller's dict when the chunk has one, else a new {}
        touched(md) == IF has_md THEN Put(chunk, "metadata", md) ELSE chunk
    IN IF st1.raised THEN st1
       ELSE IF chunk_embedding.dim = 0
       THEN [st1 EXCEPT !.out = Append(@, touched(minimal)),
                        !.after[i] = touched(minimal),
                        !.trace = Append(@, Step("relevance", i))]
       ELSE IF similarity.raised THEN [st1 EXCEPT !.raised = TRUE]
       ELSE [st1 EXCEPT !.out = Append(@, [text |-> Get(chunk, "text", ""), metadata |-> scored]),
                        !.after[i] = touched(scored),
                        !.trace = Append(@, Step("relevance", i))]

\* the chunk's embedding once st1 is reached: its own, or the one just made
EmbeddingAt(st1, given, embeds_it) == IF embeds_it THEN st1.vector ELSE given

\* One iteration of score_chunks' loop, on chunk number i (already known to
\* be a dict) with the query embedding qe.
score_one(st, qe, chunk, i, key, envs) ==
    LET given == Get(Get(chunk, "metadata", EmptyDict), "embedding", EmptyVec)
        embeds_it == given.dim = 0 /\ "text" \in DOMAIN chunk
        rest(st1) == score_embedded(st1, qe, chunk, i, EmbeddingAt(st1, given, embeds_it))
    IN rest(IF embeds_it THEN Embed(st, "score_chunks", i, chunk["text"], key, envs) ELSE st)

RECURSIVE score_loop(_, _, _, _, _, _)
score_loop(st, qe, chunks, i, key, envs) ==
    IF st.raised \/ i > Len(chunks) THEN st
    ELSE IF ~IsDict(chunks[i]) THEN [st EXCEPT !.raised = TRUE]   \* chunk.get
    ELSE score_loop(score_one(st, qe, chunks[i], i, key, envs), qe, chunks, i + 1, key, envs)

\* score_chunks from the point where query_embedding is known
score_with_query(st1, query_embedding, chunks, key, envs) ==
    IF st1.raised THEN st1
    ELSE IF query_embedding.dim = 0 THEN [st1 EXCEPT !.out = chunks]
    ELSE score_loop(st1, query_embedding, chunks, 1, key, envs)

\* score_chunks(query, chunks): st.out is empty on entry and holds the
\* returned list on exit.  query is a dict here, or the call raises.
score_chunks(st, query, chunks, key, envs) ==
    IF ~IsDict(query) THEN [st EXCEPT !.raised = TRUE]    \* query.get
    ELSE
    LET given == Get(Get(query, "metadata", EmptyDict), "embedding", EmptyVec)
        embeds_it == given.dim = 0 /\ "text" \in DOMAIN query
        rest(st1) == score_with_query(st1, EmbeddingAt(st1, given, embeds_it), chunks, key, envs)
    IN rest(IF embeds_it THEN Embed(st, "score_chunks", 0, query["text"], key, envs) ELSE st)


---------------------------------------------------------------------------
(* RankAggregator *)

\* A URL string: scheme "://" ["www."] host-labels-joined-by-"." [":8080"]
\* "/" path.  The url key's default "" is NoUrl.
Url(scheme, www, host) == [scheme |-> scheme, www |-> www, host |-> host, port |-> FALSE]
NoUrl == Url("", FALSE, <<>>)

\* re.search(r'https?://(?:www\.)?([^/]+)', url): the labels of group 1,
\* or <<>> for the domain "" of a url that does not match.  Group 1 runs up
\* to the first "/", so a port stays on the last label ("org:8080", written
\* here as one more element).
Domain(url) ==
    IF url.scheme \notin {"http", "https"} THEN <<>>
    ELSE IF url.port THEN url.host \o <<":8080">>
    ELSE url.host

\* domain_scores, in the order the dict literal lists its keys
Entry(d, score) == [domain |-> d, score |-> score]
domain_scores == <<
    Entry(<<"arxiv", "org">>, 8500),
    Entry(<<"scholar", "google", "com">>, 8000),
    Entry(<<"pubmed", "ncbi", "nlm", "nih", "gov">>, 9000),
    Entry(<<"nature", "com">>, 9500),
    Entry(<<"science", "org">>, 9500),
    Entry(<<"ieee", "org">>, 8500),
    Entry(<<"acm", "org">>, 8500),
    Entry(<<"nih", "gov">>, 9000),
    Entry(<<"edu">>, 8000),
    Entry(<<"gov">>, 8500),
    Entry(<<"org">>, 7500),
    Entry(<<"com">>, 6000) >>

\* domain.endswith("." + d)
EndsWithDot(domain, d) ==
    /\ Len(d) < Len(domain)
    /\ SubSeq(domain, Len(domain) - Len(d) + 1, Len(domain)) = d

\* the authority score of one chunk's metadata
authority_of(metadata) ==
    LET domain == Domain(Get(metadata, "url", NoUrl))
        exact == {i \in DOMAIN domain_scores : domain_scores[i].domain = domain}
        partial == {i \in DOMAIN domain_scores : EndsWithDot(domain, domain_scores[i].domain)}
        first == CHOOSE i \in partial : \A j \in partial : i <= j
        by_domain == IF exact # {} THEN domain_scores[CHOOSE i \in exact : TRUE].score
                     ELSE IF partial # {} THEN (domain_scores[first].score * 9) \div 10
                     ELSE Neutral
    IN IF Get(metadata, "source_type", "") = "academic"
       THEN Min(Scale, (by_domain * 11) \div 10)
       ELSE by_domain

\* chunk.get("metadata", {}) of chunk i, {} standing in for a chunk that is
\* no dict (the loop raises before it reads it)
MetadataOf(chunks, i) == IF IsDict(chunks[i]) THEN Get(chunks[i], "metadata", EmptyDict) ELSE EmptyDict

\* A stage of the aggregator over a list of chunks: chunk i's metadata gets
\* key := values[i] in place (when the chunk holds a metadata dict) and a
\* new chunk {"text", "metadata"} is appended to the result.
\* [raised, out, after]; a chunk that is no dict raises at chunk.get.
RECURSIVE annotate(_, _, _, _, _)
annotate(chunks, i, key, values, acc) ==
    IF i > Len(chunks) THEN acc
    ELSE IF ~IsDict(chunks[i]) THEN [acc EXCEPT !.raised = TRUE]
    ELSE LET chunk == chunks[i]
             metadata == Put(MetadataOf(chunks, i), key, values[i])
             new == [text |-> Get(chunk, "text", ""), metadata |-> metadata]
             left == IF "metadata" \in DOMAIN chunk THEN Put(chunk, "metadata", metadata) ELSE chunk
         IN annotate(chunks, i + 1, key, values,
                     [acc EXCEPT !.out = Append(@, new), !.after[i] = left])

compute_authority_scores(chunks) ==
    annotate(chunks, 1, "authority_score",
             [i \in DOMAIN chunks |-> authority_of(MetadataOf(chunks, i))],
             [raised |-> FALSE, out |-> <<>>, after |-> chunks])

\* a fusion that weighs relevance by the authority weight and authority by
\* the semantic weight
final_score_of_swapped(metadata, w) ==
    LET relevance == Get(metadata, "relevance_score", Neutral)
        authority == Get(metadata, "authority_score", Neutral)
        recency == Get(metadata, "recency_score", Neutral)
        quality == Get(metadata, "quality_score", Neutral)
    IN (relevance * w.authority + authority * w.semantic
          + recency * w.recency + quality * (WScale \div 10))
        \div (w.semantic + w.authority + w.recency + WScale \div 10)

\* a fusion that takes a missing score for 0
final_score_of_zero_default(metadata, w) ==
    LET relevance == Get(metadata, "relevance_score", 0)
        authority == Get(metadata, "authority_score", 0)
        recency == Get(metadata, "recency_score", 0)
        quality == Get(metadata, "quality_score", 0)
        den == w.semantic + w.authority + w.recency + WScale \div 10
        num == relevance * w.semantic + authority * w.authority
                 + recency * w.recency + quality * (WScale \div 10)
    IN IF den > 0 THEN num \div den ELSE (0 - num) \div (0 - den)

\* a / b for floats, rounded down to the unit
Div(a, b) == IF b > 0 THEN a \div b ELSE (0 - a) \div (0 - b)

QualityWeight == WScale \div 10

final_score_of(metadata, w) ==
    LET relevance == Get(metadata, "relevance_score", Neutral)
        authority == Get(metadata, "authority_score", Neutral)
        recency == Get(metadata, "recency_score", Neutral)
        quality == Get(metadata, "quality_score", Neutral)
    IN Div(relevance * w.semantic + authority * w.authority
             + recency * w.recency + quality * QualityWeight,
           w.semantic + w.authority + w.recency + QualityWeight)

calculate_final_scores(chunks, w) ==
    IF chunks = <<>> THEN [raised |-> FALSE, out |-> <<>>, after |-> chunks]
    ELSE IF w.semantic + w.authority + w.recency + QualityWeight = 0
         \* the first iteration raises (ZeroDivisionError, or AttributeError at
         \* chunk.get) before it has written anything
         THEN [raised |-> TRUE, out |-> <<>>, after |-> chunks]
    ELSE annotate(chunks, 1, "final_score",
                  [i \in DOMAIN chunks |-> final_score_of(MetadataOf(chunks, i), w)],
                  [raised |-> FALSE, out |-> <<>>, after |-> chunks])

\* the sort key of rank_chunks
SortKey(chunk) == Get(Get(chunk, "metadata", EmptyDict), "final_score", 0)

\* sorted(..., reverse = True) is stable: x goes behind every element whose
\* key is at least its own
RECURSIVE InsertDesc(_, _)
InsertDesc(sorted, x) ==
    IF sorted = <<>> THEN <<x>>
    ELSE IF SortKey(Head(sorted)) >= SortKey(x)
         THEN <<Head(sorted)>> \o InsertDesc(Tail(sorted), x)
         ELSE <<x>> \o sorted

RECURSIVE SortDesc(_, _)
SortDesc(chunks, i) ==
    IF i = 0 THEN <<>> ELSE InsertDesc(SortDesc(chunks, i - 1), chunks[i])

\* a sort that is not stable: x goes before the elements of its own key
RECURSIVE InsertDescUnstable(_, _)
InsertDescUnstable(sorted, x) ==
    IF sorted = <<>> THEN <<x>>
    ELSE IF SortKey(Head(sorted)) > SortKey(x)
         THEN <<Head(sorted)>> \o InsertDescUnstable(Tail(sorted), x)
         ELSE <<x>> \o sorted

RECURSIVE SortDescUnstable(_, _)
SortDescUnstable(chunks, i) ==
    IF i = 0 THEN <<>> ELSE InsertDescUnstable(SortDescUnstable(chunks, i - 1), chunks[i])

rank_chunks_unstable(chunks) ==
    [raised |-> FALSE, out |-> SortDescUnstable(chunks, Len(chunks))]

rank_chunks(chunks) ==
    IF \E i \in DOMAIN chunks : ~IsDict(chunks[i])
    THEN [raised |-> TRUE, out |-> <<>>]
    ELSE [raised |-> FALSE, out |-> SortDesc(chunks, Len(chunks))]

\* xs[:n] for an int n
Slice(xs, n) ==
    IF n >= 0 THEN SubSeq(xs, 1, Min(n, Len(xs)))
    ELSE SubSeq(xs, 1, Max(Len(xs) + n, 0))

\* a selection that forgets to rank
select_top_chunks_unranked(chunks, top_n) ==
    [raised |-> FALSE, out |-> Slice(chunks, top_n)]

select_top_chunks(chunks, top_n) ==
    LET ranked == rank_chunks(chunks)
    IN [raised |-> ranked.raised, out |-> Slice(ranked.out, top_n)]


---------------------------------------------------------------------------
(* ContentSelector *)

Steps(stage, k) == [i \in 1..k |-> Step(stage, i)]

\* the query with the embedding the call that led to st1 returned
WithEmbedding(st1, q2) ==
    [st1 EXCEPT !.query = IF st1.raised THEN q2
                          ELSE Put(q2, "metadata", Put(q2["metadata"], "embedding", st1.vector))]

\* ContentSelector.process_query(query): st.query is the query object
process_query_selector(st, key, envs) ==
    LET q0 == st.query
        q1 == IF IsStr(q0) THEN [text |-> q0.value, metadata |-> EmptyDict] ELSE q0
        q2 == IF "metadata" \in DOMAIN q1 THEN q1 ELSE Put(q1, "metadata", EmptyDict)
    IN IF ~IsStr(q0) /\ "text" \notin DOMAIN q0 THEN st
       ELSE IF "embedding" \in DOMAIN q2["metadata"] THEN [st EXCEPT !.query = q2]
       ELSE WithEmbedding(Embed(st, "ContentSelector.process_query", 0, q2["text"], key, envs),
                          q2)

\* the recency loop of select_content over the list it got from score_chunks
RECURSIVE recency_loop(_, _, _, _)
recency_loop(st, scored, i, today) ==
    IF i > Len(scored) THEN st
    ELSE IF ~IsDict(scored[i]) THEN [st EXCEPT !.raised = TRUE]
    ELSE IF calculate_recency_score(scored[i], today).raised THEN [st EXCEPT !.raised = TRUE]
    ELSE LET chunk == scored[i]
             metadata == Put(Get(chunk, "metadata", EmptyDict), "recency_score",
                             calculate_recency_score(chunk, today).value)
         IN recency_loop([st EXCEPT !.out = Append(@, [text |-> Get(chunk, "text", ""),
                                                       metadata |-> metadata]),
                                    !.trace = Append(@, Step("recency", i))],
                         scored, i + 1, today)

\* The stages of select_content, each from the state st the one before left;
\* a stage is skipped while an exception propagates.

\* if 'metadata' not in query or 'embedding' not in query['metadata']
query_stage(st, key, envs) ==
    LET query == st.query
        needs_query == IF IsDict(query)
                       THEN "metadata" \notin DOMAIN query
                            \/ "embedding" \notin DOMAIN query["metadata"]
                       ELSE TRUE      \* a str: "metadata" is no substring of it
    IN IF ~IsDict(query) /\ ~IsStr(query) THEN [st EXCEPT !.raised = TRUE]
       ELSE IF needs_query THEN process_query_selector(st, key, envs)
       ELSE st

relevance_stage(st, chunks, key, envs) ==
    IF st.raised THEN st ELSE score_chunks(st, st.query, chunks, key, envs)

recency_stage(st, today) ==
    IF st.raised THEN st ELSE recency_loop([st EXCEPT !.out = <<>>], st.out, 1, today)

\* the state after an aggregator stage has answered r
Aggregated(st, r, stage) ==
    [st EXCEPT !.raised = r.raised, !.out = r.out,
               !.trace = @ \o Steps(stage, Len(r.out))]

authority_stage(st) ==
    IF st.raised THEN st ELSE Aggregated(st, compute_authority_scores(st.out), "authority")

fusion_stage(st, w) ==
    IF st.raised THEN st ELSE Aggregated(st, calculate_final_scores(st.out, w), "fusion")

Selected(st, r) ==
    [st EXCEPT !.raised = r.raised, !.out = r.out,
               !.selected = IF r.raised THEN @ ELSE r.out,
               !.trace = Append(@, Step("selection", 0))]

selection_stage(st, top_n) ==
    IF st.raised THEN st ELSE Selected(st, select_top_chunks(st.out, top_n))

\* nothing is returned from a call that raised
Outcome(st) == [st EXCEPT !.out = IF st.raised THEN <<>> ELSE @]

\* select_content past its first test: the query, then the five stages
select_stages(st0, chunks, top_n, key, envs, today, w) ==
    Outcome(
      selection_stage(
        fusion_stage(
          authority_stage(
            recency_stage(
              relevance_stage(query_stage(st0, key, envs), chunks.items, key, envs),
              today)),
          w),
        top_n))

select_content_unguarded_query(st0, chunks, top_n, key, envs, today, w) ==
    IF ~Truthy(chunks) THEN [st0 EXCEPT !.out = <<>>]
    ELSE select_stages(st0, chunks, top_n, key, envs, today, w)

\* select_content(query, chunks, top_n) from the state st0 of the call so
\* far (st0.query is the query argument, st0.after the chunk objects).
\* chunks is a list or None; top_n an int.
select_content(st0, chunks, top_n, key, envs, today, w) ==
    IF ~Truthy(st0.query) \/ ~Truthy(chunks) THEN [st0 EXCEPT !.out = <<>>]
    ELSE select_stages(st0, chunks, top_n, key, envs, today, w)


---------------------------------------------------------------------------
(* Configuration: config/settings.yaml *)

\* The settings file: NoFile when config/settings.yaml does not exist, else
\* the dict under its "ranking" key.  Weights are in WScale units.
NoFile == [py_type |-> "NoneType"]
DefaultWeights == [semantic |-> 500, authority |-> 300, recency |-> 200]

\* RankingSystem._load_config
_load_config(settings) ==
    IF ~IsDict(settings) THEN [top_n |-> DefaultTopN]
    ELSE IF "top_n" \in DOMAIN settings THEN settings
    ELSE Put(settings, "top_n", DefaultTopN)

\* RankAggregator._load_weights
_load_weights(settings) ==
    IF ~IsDict(settings) THEN DefaultWeights
    ELSE LET raw == [semantic |-> Get(settings, "weight_semantic", DefaultWeights.semantic),
                     authority |-> Get(settings, "weight_authority", DefaultWeights.authority),
                     recency |-> Get(settings, "weight_recency", DefaultWeights.recency)]
             total == raw.semantic + raw.authority + raw.recency
         IN IF total > 0
            THEN [k \in DOMAIN raw |-> (raw[k] * WScale) \div total]
            ELSE raw

---------------------------------------------------------------------------
(* RankingSystem *)

\* the query dict process_query builds from what embed_content answered
QueryData(st1, query_text) ==
    [st1 EXCEPT !.raised = FALSE,
                !.query = [text |-> query_text,
                           metadata |-> IF st1.raised THEN EmptyDict
                                        ELSE [embedding |-> st1.vector]]]

\* RankingSystem.process_query(query_text): an exception of embed_content
\* is caught and the query is left without an embedding
process_query(st, query_text, key, envs) ==
    QueryData(Embed(st, "RankingSystem.process_query", 0, query_text, key, envs), query_text)

\* the state a call starts in
Start(query, chunks, m) ==
    [raised |-> FALSE, out |-> <<>>,
     after |-> IF IsList(chunks) THEN chunks.items ELSE <<>>,
     n |-> 0, model |-> m, trace |-> <<>>, embeds |-> <<>>, vector |-> EmptyVec,
     query |-> query, selected |-> <<>>]

\* metrics after one more ranked call that took `elapsed`
Measured(mt, n_chunks, elapsed) ==
    [total_queries |-> mt.total_queries + 1,
     total_chunks |-> mt.total_chunks + n_chunks,
     average_time |-> IF mt.average_time = 0 THEN elapsed
                      ELSE (9 * mt.average_time + elapsed) \div 10]

\* what rank_content makes of the state sel select_content ended in
Ranked(sel, chunks, mt, elapsed) ==
    IF sel.raised
    THEN [escaped |-> FALSE, caught |-> TRUE, result |-> <<>>, st |-> sel, metrics |-> mt]
    ELSE [escaped |-> FALSE, caught |-> FALSE, result |-> sel.out, st |-> sel,
          metrics |-> Measured(mt, Len(chunks.items), elapsed)]

\* rank_content that takes the configured top_n whenever top_n is falsy
rank_content_falsy_top_n(st, chunks, top_n, key, envs, today, w, cfg, mt, elapsed) ==
    LET st1 == IF IsStr(st.query) THEN process_query(st, st.query.value, key, envs) ELSE st
        n == IF top_n.py_type = "NoneType" \/ top_n.value = 0
             THEN Get(cfg, "top_n", DefaultTopN) ELSE top_n.value
    IN IF ~IsList(chunks)
       THEN [escaped |-> TRUE, caught |-> FALSE, result |-> <<>>, st |-> st1, metrics |-> mt]
       ELSE Ranked(select_content(st1, chunks, n, key, envs, today, w), chunks, mt, elapsed)

\* rank_content from the state st (st.query is the query argument):
\*   escaped  an exception reached the caller
\*   caught   the except clause ran and [] was returned
\*   result   the list returned
\*   st       the state the call ends in
\*   metrics  RankingSystem.metrics after the call
rank_content(st, chunks, top_n, key, envs, today, w, cfg, mt, elapsed) ==
    LET st1 == IF IsStr(st.query) THEN process_query(st, st.query.value, key, envs) ELSE st
        n == IF top_n.py_type = "NoneType" THEN Get(cfg, "top_n", DefaultTopN) ELSE top_n.value
    IN IF ~IsList(chunks)      \* len(chunks) raises TypeError outside the try
       THEN [escaped |-> TRUE, caught |-> FALSE, result |-> <<>>, st |-> st1, metrics |-> mt]
       ELSE Ranked(select_content(st1, chunks, n, key, envs, today, w), chunks, mt, elapsed)

\* f"{average_time:.2f}s": the number of hundredths printed (average_time is
\* in thousandths)
Format2f(t) == (t + 5) \div 10

\* a result dict that counts the chunks the call was given
RankedResult_of_input(r) ==
    r @@ [total_chunks |-> Len(r.st.after),
          processing_time |-> Format2f(r.metrics.average_time)]

\* the dict process_and_rank builds around the list r.result
RankedResult(r) ==
    r @@ [total_chunks |-> Len(r.result),
          processing_time |-> Format2f(r.metrics.average_time)]

\* process_and_rank
process_and_rank(st, chunks, top_n, key, envs, today, w, cfg, mt, elapsed) ==
    RankedResult(
        rank_content(IF IsStr(st.query) THEN process_query(st, st.query.value, key, envs) ELSE st,
                     chunks, top_n, key, envs, today, w, cfg, mt, elapsed))


---------------------------------------------------------------------------
(* The values the calls of the model are made with *)

ScoreKeys == {"relevance_score", "quality_score", "recency_score", "authority_score"}

IsoDate == "%Y-%m-%d"
ArxivUrl == Url("https", FALSE, <<"arxiv", "org">>)
BlogUrl == Url("https", TRUE, <<"example", "com">>)

\* days are counted from the day the engine was constructed
ArxivChunk ==
    [text |-> RelatedText,
     metadata |-> [url |-> ArxivUrl, source_type |-> "academic",
                   publication_date |-> DateStr(IsoDate, -90)]]
\* ArxivChunk but for a generic .com url and a date eight years back
ComChunk ==
    [text |-> RelatedText,
     metadata |-> [url |-> BlogUrl, source_type |-> "academic",
                   publication_date |-> DateStr(IsoDate, -2920)]]
BlogChunk ==
    [text |-> UnrelatedText,
     metadata |-> [url |-> BlogUrl, source_type |-> "web",
                   publication_date |-> DateStr(IsoDate, -2920),
                   embedding |-> Vec(EmbeddingDim, -3, -4)]]
FutureChunk ==
    [text |-> RelatedText,
     metadata |-> [publication_date |-> DateStr(IsoDate, 3650)]]
NoTextChunk == [metadata |-> [url |-> ArxivUrl]]
NoMetadataChunk == [text |-> QueryText]
NotADictChunk == PyStr("chunk")

EngineChunks ==
    {ArxivChunk, BlogChunk, FutureChunk, NoTextChunk, NoMetadataChunk, NotADictChunk}

ListsOver(S, n) == UNION {[1..k -> S] : k \in 0..n}

EngineChunkArgs == {PyNone} \cup {PyList(cs) : cs \in ListsOver(EngineChunks, MaxChunks)}

EngineQueries ==
    {PyStr(QueryText), PyStr(SurrogateText), PyNone, EmptyDict, PyInt(5),
     [text |-> QueryText],
     [text |-> QueryText, metadata |-> [embedding |-> Vec(EmbeddingDim, 3, 4)]],
     [metadata |-> EmptyDict]}

\* top_n is left to the configuration (10, or the 1 of the settings file)
EngineTopNs == {PyNone}

\* the world during a call: the provider answers, or only the local model
\* does, or neither
ApiUp == [api |-> "vector", load |-> "ok", encode |-> "ok"]
LocalOnly == [api |-> "raise", load |-> "ok", encode |-> "ok"]
Offline == [api |-> "raise", load |-> "fail", encode |-> "fail"]
Worlds == {ApiUp, LocalOnly, Offline}

\* a call makes at most MaxChunks + 2 embed_content calls
SteadyEnvs == {[i \in 1..(MaxChunks + 2) |-> e] : e \in Worlds}

ElapsedTimes == {40}

SettingsFiles ==
    {NoFile,
     [top_n |-> 1, weight_semantic |-> 2000, weight_authority |-> 1000,
      weight_recency |-> 1000]}

---------------------------------------------------------------------------
(* The state machine *)

NoCall ==
    [op |-> "none", query |-> PyNone, chunks |-> PyNone, top_n |-> PyNone,
     escaped |-> FALSE, caught |-> FALSE, result |-> <<>>, after |-> <<>>,
     query_after |-> PyNone, trace |-> <<>>, embeds |-> <<>>,
     total_chunks |-> 0, processing_time |-> 0,
     text |-> "", env |-> Offline, vector |-> EmptyVec, tried |-> <<>>,
     settings |-> NoFile, score |-> 0, selected |-> <<>>]

\* a caller of rank_content: `at` the statement it executes next, reg the
\* value it last read from self.metrics, chunks its argument, result what
\* select_content returned to it
NotCalling == [at |-> "call", reg |-> 0, chunks |-> PyNone, result |-> <<>>]

\* RankingSystem.__init__ (and the constructors it calls)
Init ==
    /\ api_key \in BOOLEAN
    /\ model = "None"
    /\ \E settings \in SettingsFiles :
          /\ config = _load_config(settings)
          /\ weights = _load_weights(settings)
    /\ metrics = [total_queries |-> 0, total_chunks |-> 0, average_time |-> 0]
    /\ now = 0
    /\ pc = "idle"
    /\ call = NoCall
    /\ threads = [t \in 1..MaxCallers |-> NotCalling]

\* what the caller sees of its query object after the call
QueryAfter(query, r) == IF IsDict(query) THEN r.st.query ELSE query

RankContent(Q, L, N, E, T) ==
    /\ pc = "idle"
    /\ metrics.total_queries < MaxCalls
    /\ \E query \in Q, chunks \in L, top_n \in N, envs \in E, elapsed \in T :
          \E r \in {rank_content(Start(query, chunks, model), chunks, top_n, api_key,
                                 envs, now, weights, config, metrics, elapsed)} :
             /\ call' = [NoCall EXCEPT !.op = "rank_content", !.query = query,
                                       !.chunks = chunks, !.top_n = top_n,
                                       !.escaped = r.escaped, !.caught = r.caught,
                                       !.result = r.result, !.after = r.st.after,
                                       !.query_after = QueryAfter(query, r),
                                       !.trace = r.st.trace, !.embeds = r.st.embeds,
                                       !.selected = r.st.selected]
             /\ model' = r.st.model
             /\ metrics' = r.metrics
    /\ pc' = "returned"
    /\ UNCHANGED <<api_key, weights, config, now, threads>>

ProcessAndRank(Q, L, N, E, T) ==
    /\ pc = "idle"
    /\ metrics.total_queries < MaxCalls
    /\ \E query \in Q, chunks \in L, top_n \in N, envs \in E, elapsed \in T :
          \E r \in {process_and_rank(Start(query, chunks, model), chunks, top_n, api_key,
                                     envs, now, weights, config, metrics, elapsed)} :
             /\ call' = [NoCall EXCEPT !.op = "process_and_rank", !.query = query,
                                       !.chunks = chunks, !.top_n = top_n,
                                       !.escaped = r.escaped, !.caught = r.caught,
                                       !.result = r.result, !.after = r.st.after,
                                       !.query_after = QueryAfter(query, r),
                                       !.trace = r.st.trace, !.embeds = r.st.embeds,
                                       !.selected = r.st.selected,
                                       !.total_chunks = r.total_chunks,
                                       !.processing_time = r.processing_time]
             /\ model' = r.st.model
             /\ metrics' = r.metrics
    /\ pc' = "returned"
    /\ UNCHANGED <<api_key, weights, config, now, threads>>

\* the caller is done with the result: queries and chunks live for one request
Release ==
    /\ pc = "returned"
    /\ pc' = "idle"
    /\ call' = NoCall
    /\ UNCHANGED <<api_key, model, weights, config, metrics, now, threads>>

EngineRankContent == RankContent(EngineQueries, EngineChunkArgs, EngineTopNs, SteadyEnvs, ElapsedTimes)
EngineProcessAndRank == ProcessAndRank(EngineQueries, EngineChunkArgs, EngineTopNs, SteadyEnvs, ElapsedTimes)

Next == EngineRankContent \/ EngineProcessAndRank \/ Release

Spec == Init /\ [][Next]_vars


---------------------------------------------------------------------------
(* The engine while the provider and the local model come and go between   *)
(* the embed_content calls of one ranking call                             *)

FlakyQueries ==
    {PyStr(QueryText), [text |-> QueryText],
     [text |-> QueryText, metadata |-> [embedding |-> Vec(EmbeddingDim, 3, 4)]]}
FlakyChunkArgs ==
    {PyList(cs) : cs \in ListsOver({ArxivChunk, ComChunk, BlogChunk, NoMetadataChunk}, MaxChunks)}
FlakyEnvs == [1..(MaxChunks + 2) -> Worlds]

FlakyRankContent == RankContent(FlakyQueries, FlakyChunkArgs, {PyNone}, FlakyEnvs, ElapsedTimes)

NextFlaky == FlakyRankContent \/ Release

SpecFlaky == Init /\ [][NextFlaky]_vars

---------------------------------------------------------------------------
(* The engine while days pass between its calls (datetime.now() moves on)  *)
(* and the provider and the local model come and go                        *)

Tick ==
    /\ pc = "idle"
    /\ now < MaxDays
    /\ now' = now + 1
    /\ UNCHANGED <<api_key, model, weights, config, metrics, pc, call, threads>>

NextClock == FlakyRankContent \/ Release \/ Tick

SpecClock == Init /\ [][NextClock]_vars

---------------------------------------------------------------------------
(* The aggregator's rank_chunks and select_top_chunks, called on their own *)

Scored(text, score) == [text |-> text, metadata |-> [final_score |-> score]]

AggChunks ==
    {Scored("a", 9000), Scored("b", 5000), Scored("c", 5000), Scored("d", -1000),
     [text |-> "e", metadata |-> EmptyDict], [text |-> "f"]}
AggLists == ListsOver(AggChunks, MaxRanked)
AggTopNs == (0 - 1)..(MaxRanked + 1)

RankChunks ==
    /\ pc = "idle"
    /\ \E chunks \in AggLists :
          \E r \in {rank_chunks(chunks)} :
             call' = [NoCall EXCEPT !.op = "rank_chunks", !.chunks = PyList(chunks),
                                    !.escaped = r.raised, !.result = r.out,
                                    !.after = chunks]
    /\ pc' = "returned"
    /\ UNCHANGED <<api_key, model, weights, config, metrics, now, threads>>

SelectTopChunks ==
    /\ pc = "idle"
    /\ \E chunks \in AggLists, top_n \in AggTopNs :
          \E r \in {select_top_chunks(chunks, top_n)} :
             call' = [NoCall EXCEPT !.op = "select_top_chunks", !.chunks = PyList(chunks),
                                    !.top_n = PyInt(top_n),
                                    !.escaped = r.raised, !.result = r.out,
                                    !.after = chunks]
    /\ pc' = "returned"
    /\ UNCHANGED <<api_key, model, weights, config, metrics, now, threads>>

NextAgg == RankChunks \/ SelectTopChunks \/ Release

SpecAgg == Init /\ [][NextAgg]_vars

---------------------------------------------------------------------------
(* The embedder's embed_content and the scorer's score_chunks, called on   *)
(* their own                                                               *)

EmbedContent ==
    /\ pc = "idle"
    /\ \E text \in Texts, env \in EmbedEnvs :
          \E e \in {embed_content(text, api_key, env, model)} :
             /\ call' = [NoCall EXCEPT !.op = "embed_content", !.text = text, !.env = env,
                                       !.escaped = e.raised, !.vector = e.value,
                                       !.tried = e.tried]
             /\ model' = e.model
    /\ pc' = "returned"
    /\ UNCHANGED <<api_key, weights, config, metrics, now, threads>>

\* score_chunks for a query with an embedding, with a text only, or with
\* neither, over chunks with and without text, embedding and metadata, while
\* the provider and the local model come and go between the embed calls
ScoreChunks ==
    /\ pc = "idle"
    /\ \E query \in {[text |-> QueryText, metadata |-> [embedding |-> Vec(EmbeddingDim, 3, 4)]],
                      [text |-> QueryText], [metadata |-> EmptyDict]},
          cs \in ListsOver({ArxivChunk, BlogChunk, NoTextChunk, NoMetadataChunk,
                            [title |-> "untitled"], [text |-> SurrogateText]}, MaxChunks),
          envs \in [1..(MaxChunks + 1) -> Worlds] :
          \E r \in {score_chunks(Start(query, PyList(cs), model), query, cs, api_key, envs)} :
             /\ call' = [NoCall EXCEPT !.op = "score_chunks", !.query = query,
                                       !.chunks = PyList(cs), !.escaped = r.raised,
                                       !.result = IF r.raised THEN <<>> ELSE r.out,
                                       !.after = r.after, !.trace = r.trace,
                                       !.embeds = r.embeds]
             /\ model' = r.model
    /\ pc' = "returned"
    /\ UNCHANGED <<api_key, weights, config, metrics, now, threads>>

NextEmbed == EmbedContent \/ ScoreChunks \/ Release

SpecEmbed == Init /\ [][NextEmbed]_vars


---------------------------------------------------------------------------
(* The engine constructed anew from a settings file *)

\* the weights a settings file may hold: negative, zero, a half and two
WeightValues == {0 - WScale, 0, WScale \div 2, 2 * WScale}

\* no file; a ranking section without weights; one weight; all three
WeightFiles ==
    {NoFile, EmptyDict}
    \cup {[weight_semantic |-> s] : s \in WeightValues}
    \cup {[weight_semantic |-> s, weight_authority |-> a, weight_recency |-> r] :
              s \in WeightValues, a \in WeightValues, r \in WeightValues}

\* RankingSystem(): __init__ and the constructors it calls, with one of the
\* settings files Files at the default location config/settings.yaml
Construct(Files) ==
    /\ pc = "idle"
    /\ \E settings \in Files :
          /\ config' = _load_config(settings)
          /\ weights' = _load_weights(settings)
          /\ call' = [NoCall EXCEPT !.op = "__init__", !.settings = settings]
    /\ api_key' \in BOOLEAN
    /\ model' = "None"
    /\ metrics' = [total_queries |-> 0, total_chunks |-> 0, average_time |-> 0]
    /\ pc' = "returned"
    /\ UNCHANGED <<now, threads>>

\* RankingSystem(config_path) for a location of the caller's: `settings` is
\* the file at config_path, `default` the one at config/settings.yaml.
\* _load_config reads config_path; RankAggregator() is built without
\* arguments and reads its own default location.
ConstructAt ==
    /\ pc = "idle"
    /\ \E settings \in SettingsFiles \cup {EmptyDict, [weight_semantic |-> 2 * WScale]},
          default \in SettingsFiles \cup {EmptyDict, [weight_semantic |-> 0]} :
          /\ config' = _load_config(settings)
          /\ weights' = _load_weights(default)
          /\ call' = [NoCall EXCEPT !.op = "__init__(config_path)", !.settings = settings]
    /\ api_key' \in BOOLEAN
    /\ model' = "None"
    /\ metrics' = [total_queries |-> 0, total_chunks |-> 0, average_time |-> 0]
    /\ pc' = "returned"
    /\ UNCHANGED <<now, threads>>

NextLoad == Construct(WeightFiles) \/ ConstructAt \/ Release

SpecLoad == Init /\ [][NextLoad]_vars

---------------------------------------------------------------------------
(* The aggregator's calculate_final_scores, called on its own by an engine  *)
(* constructed from any of the weight files                                *)

\* lists of one or two chunks without metadata, or holding any of the four
\* scores (high ones, or low ones with a negative relevance)
CalculateFinalScores ==
    /\ pc = "idle"
    /\ LET high == [relevance_score |-> 8944, quality_score |-> 4000,
                    recency_score |-> 9506, authority_score |-> 8500]
           low == [relevance_score |-> -1414, quality_score |-> Scale,
                   recency_score |-> 0, authority_score |-> Neutral]
           holding == {[text |-> "a", metadata |-> [k \in S |-> full[k]]] :
                          S \in SUBSET ScoreKeys, full \in {high, low}}
           singles == {<<c>> : c \in holding \cup {[text |-> "f"]}}
           pairs == {<<[text |-> "f"], c>> : c \in holding}
       IN \E chunks \in singles \cup pairs :
             \E r \in {calculate_final_scores(chunks, weights)} :
                call' = [NoCall EXCEPT !.op = "calculate_final_scores",
                                       !.chunks = PyList(chunks),
                                       !.escaped = r.raised, !.result = r.out,
                                       !.after = r.after]
    /\ pc' = "returned"
    /\ UNCHANGED <<api_key, model, weights, config, metrics, now, threads>>

\* compute_authority_scores on one chunk: without metadata, without url, or
\* with a url of any scheme, with and without "www.", with and without a
\* port, whose host is a table entry, a subdomain of one, or unknown to the
\* table
ComputeAuthorityScores ==
    /\ pc = "idle"
    /\ LET entries == {domain_scores[i].domain : i \in DOMAIN domain_scores}
           hosts == entries \cup {<<"sub">> \o d : d \in entries} \cup {<<"example", "io">>}
           urls == {NoUrl} \cup {Url(scheme, www, host) :
                                   scheme \in {"http", "https", "ftp"}, www \in BOOLEAN,
                                   host \in hosts}
                   \cup {[Url("https", FALSE, host) EXCEPT !.port = TRUE] : host \in hosts}
           typed == {[text |-> "a", metadata |-> [url |-> u, source_type |-> t]] :
                        u \in urls, t \in {"academic", "web"}}
           untyped == {[text |-> "a", metadata |-> [url |-> u]] : u \in urls}
           bare == {[text |-> "a"], [text |-> "a", metadata |-> [source_type |-> "academic"]]}
       IN \E chunk \in typed \cup untyped \cup bare :
             \E r \in {compute_authority_scores(<<chunk>>)} :
                call' = [NoCall EXCEPT !.op = "compute_authority_scores",
                                       !.chunks = PyList(<<chunk>>),
                                       !.escaped = r.raised, !.result = r.out,
                                       !.after = r.after]
    /\ pc' = "returned"
    /\ UNCHANGED <<api_key, model, weights, config, metrics, now, threads>>

SpecStages ==
    Init /\ [][Construct(WeightFiles) \/ CalculateFinalScores \/ ComputeAuthorityScores
                 \/ Release]_vars

---------------------------------------------------------------------------
(* RelevanceScorer.calculate_recency_score and assess_content_quality      *)
(* called on their own                                                     *)

\* chunks without metadata, with metadata None, without a date, with a date:
\* None, "", 0, 5, a bare year, the accepted formats for old, recent and
\* coming days and for days around half a year and five years back, a
\* datetime, a datetime with a tzinfo
RecencyChunks ==
    LET dates ==
            {NoDate, DateStr("", 0), DateInt(0), DateInt(5), DateStr("%Y", -365)}
            \cup {DateStr(AcceptedFormats[f], d) :
                     f \in DOMAIN AcceptedFormats,
                     d \in {-3650, -1825, -1824, -182, -181, -90, 10}}
            \cup {DateTime(-90), [DateTime(-90) EXCEPT !.fmt = "aware"]}
    IN {[text |-> RelatedText], [text |-> RelatedText, metadata |-> PyNone],
        [text |-> RelatedText, metadata |-> [url |-> ArxivUrl]]}
       \cup {[text |-> RelatedText, metadata |-> [publication_date |-> d]] : d \in dates}

CalculateRecencyScore ==
    /\ pc = "idle"
    /\ \E chunk \in RecencyChunks :
          \E r \in {calculate_recency_score(chunk, now)} :
             call' = [NoCall EXCEPT !.op = "calculate_recency_score",
                                    !.chunks = PyList(<<chunk>>),
                                    !.escaped = r.raised, !.score = r.value]
    /\ pc' = "returned"
    /\ UNCHANGED <<api_key, model, weights, config, metrics, now, threads>>

\* assess_content_quality on a chunk without text, with a short text, or
\* with a text of a length at and around each threshold holding none, one,
\* two, three or all of the indicators
AssessContentQuality ==
    /\ pc = "idle"
    /\ \E chunk \in {[metadata |-> EmptyDict], [text |-> ""], [text |-> RelatedText]}
                     \cup {[text |-> LongText(n, k)] :
                              n \in {74, 75, 76, 149, 150, 151, 299, 300, 301},
                              k \in {0, 1, 2, 3, 10}} :
          call' = [NoCall EXCEPT !.op = "assess_content_quality",
                                 !.chunks = PyList(<<chunk>>),
                                 !.text = Get(chunk, "text", ""),
                                 !.score = assess_content_quality(chunk)]
    /\ pc' = "returned"
    /\ UNCHANGED <<api_key, model, weights, config, metrics, now, threads>>

NextRecency == CalculateRecencyScore \/ AssessContentQuality \/ Release \/ Tick

SpecRecency == Init /\ [][NextRecency]_vars

---------------------------------------------------------------------------
(* The engine, constructed from any of the weight files, ranking a highly  *)
(* relevant chunk against an unrelated one of any authority                *)

NatureUrl == Url("https", TRUE, <<"nature", "com">>)

FusionQuery == [text |-> QueryText, metadata |-> [embedding |-> Vec(EmbeddingDim, 3, 4)]]

\* a chunk that holds its embedding; texts of one length class and one date
\* make quality and recency equal
FusionChunk(text, embedding, url, source_type) ==
    [text |-> text,
     metadata |-> [url |-> url, source_type |-> source_type, embedding |-> embedding,
                   publication_date |-> DateStr(IsoDate, -90)]]

\* a relevant and an unrelated chunk in either order, of every authority;
\* cosine with the query embedding (3, 4): 0.89 for (4, 2), 0.14 for (-3, 3)
FusionChunkArgs ==
    LET urls == {NoUrl, BlogUrl, ArxivUrl, NatureUrl}
        source_types == {"web", "academic"}
        relevant == {FusionChunk(RelatedText, Vec(EmbeddingDim, 4, 2), u, t) :
                        u \in urls, t \in source_types}
        unrelated == {FusionChunk(UnrelatedText, Vec(EmbeddingDim, -3, 3), u, t) :
                        u \in urls, t \in source_types}
    IN {PyList(<<a, b>>) : a \in relevant, b \in unrelated}
       \cup {PyList(<<b, a>>) : a \in relevant, b \in unrelated}

FusionRankContent ==
    RankContent({FusionQuery}, FusionChunkArgs, {PyNone}, {[i \in 1..(MaxChunks + 2) |-> Offline]},
                ElapsedTimes)

\* lists of up to MaxListed chunks, one more than the default top_n
TopNChunkArgs ==
    {PyList([i \in 1..k |-> FusionChunk(RelatedText, Vec(EmbeddingDim, 4, 2), ArxivUrl, "academic")]) :
        k \in 0..MaxListed}

\* rank_content without top_n and with top_n 0, 1, 2 and MaxListed
TopNRankContent ==
    RankContent({FusionQuery}, TopNChunkArgs,
                {PyNone, PyInt(0), PyInt(1), PyInt(2), PyInt(MaxListed)},
                {[i \in 1..(MaxChunks + 2) |-> Offline]}, ElapsedTimes)

NextFusion == Construct(WeightFiles) \/ FusionRankContent \/ Release

SpecFusion == Init /\ [][NextFusion]_vars

\* the engine, constructed with or without a configured top_n, ranking lists
\* longer and shorter than top_n
SpecTopN ==
    Init /\ [][Construct(SettingsFiles \cup {EmptyDict}) \/ TopNRankContent \/ Release]_vars

---------------------------------------------------------------------------
(* Callers on threads of their own ranking on one engine.  rank_content    *)
(* takes no lock; metrics[k] += v reads metrics[k], adds, then writes, and *)
(* another thread may run between the read and the write.                  *)

\* the next statement of caller t inside rank_content
RankStep(t) ==
    /\ \/ /\ threads[t].at = "call"
          /\ \E chunks \in {c \in TopNChunkArgs : Len(c.items) \in 1..MaxChunks} :
                \E r \in {select_content(Start(FusionQuery, chunks, model), chunks,
                                         Get(config, "top_n", DefaultTopN), api_key,
                                         [i \in 1..(MaxChunks + 2) |-> Offline], now, weights)} :
                   /\ threads' = [threads EXCEPT ![t] =
                                     [at |-> IF r.raised THEN "done" ELSE "load_queries",
                                      reg |-> 0, chunks |-> chunks, result |-> r.out]]
                   /\ model' = r.model
          /\ UNCHANGED metrics
       \* self.metrics["total_queries"] += 1
       \/ /\ threads[t].at = "load_queries"
          /\ threads' = [threads EXCEPT ![t].at = "store_queries", ![t].reg = metrics.total_queries]
          /\ UNCHANGED <<metrics, model>>
       \/ /\ threads[t].at = "store_queries"
          /\ metrics' = [metrics EXCEPT !.total_queries = threads[t].reg + 1]
          /\ threads' = [threads EXCEPT ![t].at = "load_chunks"]
          /\ UNCHANGED model
       \* self.metrics["total_chunks"] += len(chunks)
       \/ /\ threads[t].at = "load_chunks"
          /\ threads' = [threads EXCEPT ![t].at = "store_chunks", ![t].reg = metrics.total_chunks]
          /\ UNCHANGED <<metrics, model>>
       \/ /\ threads[t].at = "store_chunks"
          /\ metrics' = [metrics EXCEPT !.total_chunks =
                                            threads[t].reg + Len(threads[t].chunks.items)]
          /\ threads' = [threads EXCEPT ![t].at = "test_average"]
          /\ UNCHANGED model
       \* if self.metrics["average_time"] == 0
       \/ /\ threads[t].at = "test_average"
          /\ threads' = [threads EXCEPT ![t].at = IF metrics.average_time = 0
                                                  THEN "set_average" ELSE "load_average"]
          /\ UNCHANGED <<metrics, model>>
       \/ /\ threads[t].at = "set_average"
          /\ \E elapsed \in ElapsedTimes :
                metrics' = [metrics EXCEPT !.average_time = elapsed]
          /\ threads' = [threads EXCEPT ![t].at = "done"]
          /\ UNCHANGED model
       \* 0.9 * self.metrics["average_time"] + 0.1 * elapsed_time
       \/ /\ threads[t].at = "load_average"
          /\ threads' = [threads EXCEPT ![t].at = "store_average", ![t].reg = metrics.average_time]
          /\ UNCHANGED <<metrics, model>>
       \/ /\ threads[t].at = "store_average"
          /\ \E elapsed \in ElapsedTimes :
                metrics' = [metrics EXCEPT !.average_time = (9 * threads[t].reg + elapsed) \div 10]
          /\ threads' = [threads EXCEPT ![t].at = "done"]
          /\ UNCHANGED model
    /\ UNCHANGED <<api_key, weights, config, now, pc, call>>

NextThreads == \E t \in 1..MaxCallers : RankStep(t)

SpecThreads == Init /\ [][NextThreads]_vars

---------------------------------------------------------------------------
(* Properties *)

EngineOps == {"rank_content", "process_and_rank"}
NonNegative(w) == w.semantic >= 0 /\ w.authority >= 0 /\ w.recency >= 0

\* C1: rank_content and process_and_rank return normally for every query and
\* every chunks argument; no exception reaches the caller.
C1_NoExceptionEscapes ==
    call.op \in EngineOps => ~call.escaped

\* C2: with non-negative weights, every chunk that has passed through fusion
\* has 0.0 <= final_score <= 1.0.
C2_FinalScoreInUnitInterval ==
    (call.op \in EngineOps /\ NonNegative(weights)) =>
        \A i \in DOMAIN call.result :
            /\ call.result[i].metadata["final_score"] >= 0
            /\ call.result[i].metadata["final_score"] <= Scale

\* The place a stable descending sort gives the j-th chunk: behind every
\* chunk of a greater key and behind the earlier chunks of its own key.
StablePlace(chunks, j) ==
    1 + Cardinality({i \in DOMAIN chunks : SortKey(chunks[i]) > SortKey(chunks[j])})
      + Cardinality({i \in 1..(j - 1) : SortKey(chunks[i]) = SortKey(chunks[j])})

\* C3: rank_chunks returns a permutation of its input in descending order of
\* final_score in which chunks of equal final_score keep their input order,
\* and ranking the returned list again returns the same list.
C3_RankIsStableDescending ==
    call.op = "rank_chunks" =>
        /\ ~call.escaped
        /\ Len(call.result) = Len(call.chunks.items)
        /\ \A j \in DOMAIN call.chunks.items :
              call.result[StablePlace(call.chunks.items, j)] = call.chunks.items[j]
        /\ \A i \in 1..(Len(call.result) - 1) :
              SortKey(call.result[i]) >= SortKey(call.result[i + 1])
        /\ rank_chunks(call.result).out = call.result

\* a ranked list in which two chunks of one final_score follow, in their
\* input order, a chunk that came after them in the input
C3_Witness ==
    /\ call.op = "rank_chunks"
    /\ Len(call.result) = MaxRanked
    /\ call.result # call.chunks.items
    /\ \E i, j \in DOMAIN call.chunks.items :
          /\ i < j
          /\ call.chunks.items[i] # call.chunks.items[j]
          /\ SortKey(call.chunks.items[i]) = SortKey(call.chunks.items[j])
          /\ \E k \in DOMAIN call.chunks.items :
                k > j /\ SortKey(call.chunks.items[k]) > SortKey(call.chunks.items[j])

\* C4: every chunk rank_content / process_and_rank returns carries the five
\* scores in its metadata.
C4_AllFiveScoresPresent ==
    call.op \in EngineOps =>
        \A i \in DOMAIN call.result :
            ScoreKeys \cup {"final_score"} \subseteq DOMAIN call.result[i].metadata

\* C5: every relevance, quality, recency and authority score the pipeline
\* writes lies in [0, 1].
C5_SignalsInUnitInterval ==
    call.op \in EngineOps =>
        \A i \in DOMAIN call.result :
            \A k \in ScoreKeys \cap DOMAIN call.result[i].metadata :
                /\ call.result[i].metadata[k] >= 0
                /\ call.result[i].metadata[k] <= Scale

\* the query select_content is called with: rank_content has turned a str
\* into a dict before
SelectQuery(query) == IF IsStr(query) THEN [text |-> query.value] ELSE query
EmbedsOfSelect == {"ContentSelector.process_query", "score_chunks"}

\* C6: select_content with an empty chunk list or a falsy query returns []
\* at once: it makes no embed call, runs no stage, touches no chunk and does
\* not raise; rank_content then returns [] without error.
C6_EmptyInputReturnsAtOnce ==
    (/\ call.op \in EngineOps
     /\ IsList(call.chunks)
     /\ (call.chunks.items = <<>> \/ ~Truthy(SelectQuery(call.query)))) =>
        /\ call.result = <<>>
        /\ ~call.escaped
        /\ ~call.caught
        /\ call.trace = <<>>
        /\ \A i \in DOMAIN call.embeds : call.embeds[i].by \notin EmbedsOfSelect
        /\ call.after = call.chunks.items
        /\ call.query_after = call.query

\* a falsy query met a chunk list that would have been scored
C6_Witness ==
    /\ call.op = "rank_content"
    /\ ~Truthy(call.query)
    /\ IsList(call.chunks)
    /\ Len(call.chunks.items) = MaxChunks
    /\ call.result = <<>>
    /\ metrics.total_chunks = MaxChunks

\* C7: select_top_chunks(chunks, n) returns the first n chunks of
\* rank_chunks(chunks), all of them when n exceeds their number, and does
\* not raise.
C7_TopIsPrefixOfRanked ==
    (call.op = "select_top_chunks" /\ call.top_n.value >= 0) =>
        /\ ~call.escaped
        /\ call.result = SubSeq(rank_chunks(call.chunks.items).out, 1,
                                Min(call.top_n.value, Len(call.chunks.items)))

\* n exceeds the number of chunks, and ranking reordered them
C7_Witness ==
    /\ call.op = "select_top_chunks"
    /\ call.top_n.value > Len(call.chunks.items)
    /\ Len(call.result) = MaxRanked
    /\ call.result # call.chunks.items

\* C8: embed_content never raises and returns a non-empty vector, for every
\* text and every outcome of the provider and the local model.
C8_EmbedIsTotal ==
    call.op = "embed_content" => (~call.escaped /\ call.vector.dim > 0)

\* C9: the vectors embed_content produces within one ranking call, for the
\* query and for the chunks, all have one dimensionality.
C9_OneDimensionPerCall ==
    call.op \in EngineOps =>
        \A i, j \in DOMAIN call.embeds :
            (~call.embeds[i].raised /\ ~call.embeds[j].raised) =>
                call.embeds[i].dim = call.embeds[j].dim

\* C10: after the call every chunk the caller passed in holds the keys and
\* values it held before.
C10_InputChunksUntouched ==
    (call.op \in EngineOps /\ IsList(call.chunks)) =>
        call.after = call.chunks.items

\* the final scores of a returned list, in order
FinalScores(result) == [i \in DOMAIN result |-> result[i].metadata["final_score"]]

\* the same call made on the day the engine was constructed, with the
\* provider answering every embed call
ReferenceCall(c) ==
    rank_content(Start(c.query, c.chunks, "None"), c.chunks, c.top_n, TRUE,
                 [i \in 1..(MaxChunks + 2) |-> ApiUp], 0, weights, config, metrics, 0)

HoldsEmbedding(query) ==
    /\ IsDict(query)
    /\ "metadata" \in DOMAIN query
    /\ "embedding" \in DOMAIN query["metadata"]

\* C11: final scores are a function of the query embedding, the chunks and
\* the weights: a call that returns a ranking returns the final scores the
\* same call returns on any other day and with any other embedding method
\* available, and chunks of identical text and metadata in one call get
\* identical final scores.
C11_ScoresAreDeterministic ==
    (/\ call.op \in EngineOps
     /\ HoldsEmbedding(call.query)
     /\ ~call.escaped /\ ~call.caught) =>
        /\ FinalScores(call.result) = FinalScores(ReferenceCall(call).result)
        /\ (\A i, j \in DOMAIN call.chunks.items : call.chunks.items[i] = call.chunks.items[j])
              => \A i, j \in DOMAIN call.result :
                    FinalScores(call.result)[i] = FinalScores(call.result)[j]

\* C12: every call of rank_content / process_and_rank that returns, whether
\* it ranked, met an empty input or failed inside, adds 1 to total_queries
\* and the number of chunks it was given to total_chunks.
C12_MetricsCountEveryCall ==
    [][(/\ pc = "idle"
        /\ call'.op \in EngineOps
        /\ ~call'.escaped) =>
           /\ metrics'.total_queries = metrics.total_queries + 1
           /\ metrics'.total_chunks = metrics.total_chunks + Len(call'.chunks.items)]_vars

WeightKeys == {"weight_semantic", "weight_authority", "weight_recency"}
WeightSum(w) == w.semantic + w.authority + w.recency
\* each of the three quotients is rounded down by less than one unit
WithinEpsilon(a, b) == a - b <= Cardinality(WeightKeys) /\ b - a <= Cardinality(WeightKeys)

\* C13: after construction from a settings file that supplies a weight the
\* three weights sum to 1.0 within epsilon, whatever the supplied weights sum
\* to; without a file the weights are 0.5 / 0.3 / 0.2.
C13_WeightsSumToOne ==
    call.op = "__init__" =>
        /\ (IsDict(call.settings) /\ DOMAIN call.settings \cap WeightKeys # {})
              => WithinEpsilon(WeightSum(weights), WScale)
        /\ ~IsDict(call.settings) => weights = DefaultWeights

\* the two chunks of scenario A, in either order
ScenarioA(items) == Len(items) = 2 /\ {items[1], items[2]} = {ArxivChunk, ComChunk}
UrlOf(chunk) == chunk.metadata["url"]

\* C14: of two chunks that differ only in url (arxiv.org against a generic
\* .com) and date (90 days against 8 years back), the arxiv.org chunk is
\* returned first, in either input order, with the strictly higher
\* authority_score and recency_score.
C14_ArxivRecentRanksFirst ==
    (call.op \in EngineOps /\ IsList(call.chunks) /\ ScenarioA(call.chunks.items)) =>
        /\ call.result # <<>>
        /\ UrlOf(call.result[1]) = ArxivUrl
        /\ \A i \in 2..Len(call.result) :
              /\ call.result[1].metadata["authority_score"] > call.result[i].metadata["authority_score"]
              /\ call.result[1].metadata["recency_score"] > call.result[i].metadata["recency_score"]

\* a call of scenario C: one highly relevant and one unrelated chunk
ScenarioC ==
    /\ call.op \in EngineOps
    /\ call.chunks \in FusionChunkArgs

\* C15 as stated: whenever weight_semantic >= weight_authority the relevant
\* chunk is returned first, whatever the two authority scores.
C15_RelevantFirst_AnyWeights ==
    (ScenarioC /\ weights.semantic >= weights.authority) =>
        /\ call.result # <<>>
        /\ call.result[1].text = RelatedText

\* C15, amended: whenever weight_semantic >= weight_authority, the weights
\* are non-negative and weight_semantic is positive, the relevant chunk is
\* returned first, whatever the two authority scores.
C15_RelevantFirst ==
    (/\ ScenarioC
     /\ weights.semantic >= weights.authority
     /\ NonNegative(weights)
     /\ weights.semantic > 0) =>
        /\ call.result # <<>>
        /\ call.result[1].text = RelatedText

\* the unrelated chunk came first in the input and has the higher authority
\* score, the weights of semantic and authority are equal and positive
C15_Witness ==
    /\ ScenarioC
    /\ weights.semantic = weights.authority
    /\ NonNegative(weights)
    /\ weights.semantic > 0
    /\ call.chunks.items[1].text = UnrelatedText
    /\ Len(call.result) = 2
    /\ call.result[1].text = RelatedText
    /\ call.result[2].metadata["authority_score"] = Scale
    /\ call.result[1].metadata["authority_score"] = Neutral

\* the publication_date a call of calculate_recency_score was given: absent
\* reads as None
DateGiven == Get(Get(call.chunks.items[1], "metadata", EmptyDict), "publication_date", NoDate)

\* absent, empty, of a type that is no date, or a string in no accepted format
NotADate(d) ==
    \/ d.py_type \notin {"str", "datetime"}
    \/ d.py_type = "str" /\ d.fmt \notin {AcceptedFormats[f] : f \in DOMAIN AcceptedFormats}

\* C16: calculate_recency_score returns exactly 0.5 when publication_date
\* is absent, empty, of a non-date type or a string matching no accepted
\* format, and raises for no publication_date value.
C16_RecencyNeutralNeverRaises ==
    (/\ call.op = "calculate_recency_score"
     /\ IsDict(Get(call.chunks.items[1], "metadata", EmptyDict))) =>
        /\ ~call.escaped
        /\ NotADate(DateGiven) => call.score = Neutral

\* a non-empty value of a non-date type, which strptime refuses with a
\* TypeError, was scored 0.5
C16_Witness ==
    /\ call.op = "calculate_recency_score"
    /\ DateGiven = DateInt(5)
    /\ ~call.escaped
    /\ call.score = Neutral

\* a date the function parses: a string in an accepted format or a naive
\* datetime
Parsed(d) ==
    \/ d.py_type = "str" /\ d.fmt \in {AcceptedFormats[f] : f \in DOMAIN AcceptedFormats}
    \/ d.py_type = "datetime" /\ d.fmt # "aware"

\* the age in days of the date given, at the time of the call
Age == now - DateGiven.day

C24_QualityScore ==
    call.op = "assess_content_quality" =>
        LET words == WordCount(call.text)
            indicators == IndicatorCount(call.text)
            base == CASE words >= 300 -> Scale
                      [] words >= 150 -> (8 * Scale) \div 10
                      [] words >= 75 -> (6 * Scale) \div 10
                      [] OTHER -> (4 * Scale) \div 10
            bonus == CASE indicators >= 3 -> (2 * Scale) \div 10
                       [] indicators >= 1 -> Scale \div 10
                       [] OTHER -> 0
        IN call.score = Min(Scale, base + bonus)

\* the embedding a chunk or a query carries (EmptyVec: none)
Carried(x) == Get(Get(x, "metadata", EmptyDict), "embedding", EmptyVec)

\* the embed_content calls made for chunk i (0: for the query)
EmbedsFor(i) == {k \in DOMAIN call.embeds : call.embeds[k].who = i}

\* the query embedding of a score_chunks call: the one the query carries, or
\* the one made of its text
QueryEmbedding ==
    IF Carried(call.query).dim > 0 THEN Carried(call.query)
    ELSE IF EmbedsFor(0) = {} THEN EmptyVec
    ELSE call.embeds[CHOOSE k \in EmbedsFor(0) : TRUE].value

\* chunk i left the relevance stage with relevance_score = similarity(query
\* embedding, e)
RelevanceIs(i, e) ==
    /\ i \in DOMAIN call.result
    /\ "relevance_score" \in DOMAIN Get(call.result[i], "metadata", EmptyDict)
    /\ ~compute_similarity(QueryEmbedding, e).raised
    /\ call.result[i].metadata["relevance_score"] = compute_similarity(QueryEmbedding, e).value

\* C25: in the relevance stage a chunk that carries an embedding causes no
\* embed call and gets relevance_score = similarity(query embedding, its
\* embedding); a chunk with a text and no embedding causes exactly one embed
\* call, on its text, and gets relevance_score = similarity(query embedding,
\* the vector of that call).
C25_ChunkEmbeddingUse ==
    (call.op = "score_chunks" /\ QueryEmbedding.dim > 0) =>
        \A i \in DOMAIN call.chunks.items :
            LET chunk == call.chunks.items[i]
            IN /\ Carried(chunk).dim > 0 =>
                     /\ EmbedsFor(i) = {}
                     /\ RelevanceIs(i, Carried(chunk))
               /\ (Carried(chunk).dim = 0 /\ "text" \in DOMAIN chunk) =>
                     /\ Cardinality(EmbedsFor(i)) = 1
                     /\ \A k \in EmbedsFor(i) :
                           /\ call.embeds[k].text = chunk["text"]
                           /\ RelevanceIs(i, call.embeds[k].value)

\* the selection step of the call ran
SelectionRan == \E k \in DOMAIN call.trace : call.trace[k].stage = "selection"

\* C17: the ranked_chunks of the dict process_and_rank returns is the very
\* sequence the selection step of the call returned (the empty list when the
\* call never reached selection), and total_chunks is its length.
C17_ResultIsSelection ==
    (call.op = "process_and_rank" /\ ~call.escaped) =>
        /\ call.result = call.selected
        /\ ~SelectionRan => call.result = <<>>
        /\ call.total_chunks = Len(call.result)

\* selection kept fewer chunks than the call was given, and the dict counts
\* the chunks kept
C17_Witness ==
    /\ call.op = "process_and_rank"
    /\ ~call.escaped
    /\ SelectionRan
    /\ call.result # <<>>
    /\ Len(call.result) < Len(call.chunks.items)
    /\ call.total_chunks = Len(call.result)

\* C18: a call without top_n returns at most the configured top_n chunks
\* (all of them when there are fewer), the configured top_n being 10 when the
\* settings have none; a call with top_n, 0 included, returns at most top_n.
C18_TopNLimitsResult ==
    /\ (call.op = "__init__" /\ "top_n" \notin DOMAIN call.settings) =>
            config["top_n"] = DefaultTopN
    /\ (call.op \in EngineOps /\ call.chunks \in TopNChunkArgs) =>
            LET limit == IF call.top_n = PyNone THEN config["top_n"] ELSE call.top_n.value
            IN Len(call.result) = Min(limit, Len(call.chunks.items))

\* eleven chunks ranked without top_n under the default configuration: ten
\* are returned
C18_Witness ==
    /\ call.op \in EngineOps
    /\ call.top_n = PyNone
    /\ config["top_n"] = DefaultTopN
    /\ Len(call.chunks.items) = DefaultTopN + 1
    /\ Len(call.result) = DefaultTopN

\* every caller has returned from rank_content
AllDone == \A t \in 1..MaxCallers : threads[t].at = "done"

\* the chunks the callers 1..t were called with, in all
RECURSIVE ChunksGiven(_)
ChunksGiven(t) == IF t = 0 THEN 0 ELSE Len(threads[t].chunks.items) + ChunksGiven(t - 1)

\* the statements from the first read of self.metrics to the last write
Updating ==
    {"store_queries", "load_chunks", "store_chunks", "test_average", "set_average",
     "load_average", "store_average"}

\* C19: callers that rank concurrently on one engine update the metrics one
\* at a time, and when all have returned total_queries has grown by their
\* number and total_chunks by the number of chunks they were given.
C19_MetricsUpdatesExclusive ==
    /\ \A t, u \in 1..MaxCallers :
          (threads[t].at \in Updating /\ threads[u].at \in Updating) => t = u
    /\ AllDone => /\ metrics.total_queries = MaxCallers
                  /\ metrics.total_chunks = ChunksGiven(MaxCallers)

\* the place of a stage in the pipeline
StageRank(stage) ==
    CASE stage = "relevance" -> 1
      [] stage = "recency" -> 2
      [] stage = "authority" -> 3
      [] stage = "fusion" -> 4
      [] stage = "selection" -> 5

\* the stage steps of the call are in pipeline order, and a step of one
\* stage comes only after the stage before, if it scored at all, has taken
\* its step on every chunk
StagesInOrder ==
    /\ \A k, l \in DOMAIN call.trace :
          k < l => StageRank(call.trace[k].stage) <= StageRank(call.trace[l].stage)
    /\ \A l \in DOMAIN call.trace :
          (\E k \in DOMAIN call.trace :
              StageRank(call.trace[k].stage) = StageRank(call.trace[l].stage) - 1) =>
             \A i \in DOMAIN call.chunks.items :
                \E k \in 1..(l - 1) :
                   /\ StageRank(call.trace[k].stage) = StageRank(call.trace[l].stage) - 1
                   /\ call.trace[k].chunk = i

\* the final score of every returned chunk is the fusion of four scores
\* that the stages of the call wrote into its metadata
FusionReadsStages ==
    \A i \in DOMAIN call.result :
        /\ ScoreKeys \subseteq DOMAIN call.result[i].metadata
        /\ call.result[i].metadata["final_score"]
              = final_score_of(call.result[i].metadata, weights)

\* C20: select_content runs relevance+quality, recency, authority, fusion
\* and selection in this order, each stage after the one before has
\* processed every chunk, and fusion reads the relevance, quality, recency
\* and authority values the earlier stages of the call wrote.
C20_StagesInOrder ==
    (call.op \in EngineOps /\ ~call.escaped) => (StagesInOrder /\ FusionReadsStages)

\* the score a chunk's metadata holds under key, 0.5 when it holds none
ScoreOr(md, key) == IF key \in DOMAIN md THEN md[key] ELSE Scale \div 2

\* (relevance*w_semantic + authority*w_authority + recency*w_recency
\*  + quality*0.1) / (w_semantic + w_authority + w_recency + 0.1), rounded
\* down to the unit
Fused(md, w) ==
    LET num == ScoreOr(md, "relevance_score") * w.semantic
                 + ScoreOr(md, "authority_score") * w.authority
                 + ScoreOr(md, "recency_score") * w.recency
                 + ScoreOr(md, "quality_score") * (WScale \div 10)
        den == w.semantic + w.authority + w.recency + WScale \div 10
    IN IF den > 0 THEN num \div den ELSE (0 - num) \div (0 - den)

\* C21: calculate_final_scores gives every chunk the final_score
\* (relevance*w_semantic + authority*w_authority + recency*w_recency +
\* quality*0.1) / (w_semantic + w_authority + w_recency + 0.1), with 0.5 for
\* each of the four scores its metadata does not hold, and leaves those
\* scores as they were.
C21_FusionFormula ==
    (call.op = "calculate_final_scores" /\ ~call.escaped) =>
        /\ Len(call.result) = Len(call.chunks.items)
        /\ \A i \in DOMAIN call.result :
              LET given == Get(call.chunks.items[i], "metadata", EmptyDict)
                  md == call.result[i].metadata
              IN /\ md["final_score"] = Fused(given, weights)
                 /\ \A k \in DOMAIN given : md[k] = given[k]

\* a chunk that holds an authority score and a negative relevance but no
\* quality and no recency score was fused, under weights that are not the
\* default ones
C21_Witness ==
    /\ call.op = "calculate_final_scores"
    /\ ~call.escaped
    /\ weights # DefaultWeights
    /\ \E i \in DOMAIN call.result :
          /\ DOMAIN call.result[i].metadata
                = {"relevance_score", "authority_score", "final_score"}
          /\ call.result[i].metadata["relevance_score"] < 0
          /\ call.result[i].metadata["final_score"] # Scale \div 2

\* the url and the source type a call of compute_authority_scores was given
UrlGiven == Get(Get(call.chunks.items[1], "metadata", EmptyDict), "url", NoUrl)
TypeGiven == Get(Get(call.chunks.items[1], "metadata", EmptyDict), "source_type", "")

\* the labels of the domain of an http(s) url
HostGiven == IF UrlGiven.scheme \in {"http", "https"} THEN UrlGiven.host ELSE <<>>

\* the table entries the domain equals, and those it is a subdomain of
ExactEntries == {i \in DOMAIN domain_scores : domain_scores[i].domain = HostGiven}
SuffixEntries ==
    {i \in DOMAIN domain_scores :
        LET d == domain_scores[i].domain
        IN /\ Len(d) < Len(HostGiven)
           /\ \A k \in DOMAIN d : HostGiven[Len(HostGiven) - Len(d) + k] = d[k]}

\* x boosted for an academic source
Boosted(x) ==
    IF TypeGiven = "academic"
    THEN (IF (x * 11) \div 10 > Scale THEN Scale ELSE (x * 11) \div 10)
    ELSE x

\* C22: the authority score is the table value of the url's domain; 0.9
\* times the value of an entry the domain is a subdomain of when it equals
\* none; 0.5 when neither (a missing or non-http url included); multiplied
\* by 1.1 and capped at 1.0 for an academic source.
C22_AuthorityScore ==
    (call.op = "compute_authority_scores" /\ ~call.escaped) =>
        LET score == call.result[1].metadata["authority_score"]
        IN /\ ExactEntries # {} =>
                 \E i \in ExactEntries : score = Boosted(domain_scores[i].score)
           /\ (ExactEntries = {} /\ SuffixEntries # {}) =>
                 \E i \in SuffixEntries : score = Boosted((domain_scores[i].score * 9) \div 10)
           /\ (ExactEntries = {} /\ SuffixEntries = {}) => score = Boosted(Scale \div 2)

\* C30: a domain that is a subdomain of several table entries gets 0.9 times
\* the value of the longest of them (boosted for an academic source).
C30_MostSpecificEntry ==
    (/\ call.op = "compute_authority_scores"
     /\ ~call.escaped
     /\ ExactEntries = {}
     /\ Cardinality(SuffixEntries) > 1) =>
        \E i \in SuffixEntries :
            /\ \A j \in SuffixEntries : Len(domain_scores[j].domain) <= Len(domain_scores[i].domain)
            /\ call.result[1].metadata["authority_score"]
                  = Boosted((domain_scores[i].score * 9) \div 10)

\* C26: a chunk without text and without embedding leaves the relevance
\* stage with relevance_score = 0.1 in its metadata, with or without a
\* metadata mapping of its own, and fusion reads 0.1 as its relevance.
C26_MinimalRelevance ==
    (call.op = "score_chunks" /\ ~call.escaped /\ QueryEmbedding.dim > 0) =>
        \A i \in DOMAIN call.chunks.items :
            (Carried(call.chunks.items[i]).dim = 0 /\ "text" \notin DOMAIN call.chunks.items[i]) =>
                LET metadata == Get(call.result[i], "metadata", EmptyDict)
                IN /\ "relevance_score" \in DOMAIN metadata
                   /\ metadata["relevance_score"] = MinimalRelevance
                   /\ ScoreOr(metadata, "relevance_score") = MinimalRelevance

\* C27: the weights an engine fuses with are the normalized weights of the
\* configuration its model name and default top_n were loaded from, at the
\* default location and at any location passed to the constructor.
C27_WeightsOfPassedConfig ==
    call.op \in {"__init__", "__init__(config_path)"} =>
        /\ config = _load_config(call.settings)
        /\ weights = _load_weights(call.settings)

\* C28: one rank_content / process_and_rank call embeds the query once: a
\* raw string query causes exactly one embed call for the query, a query
\* that carries an embedding causes none, and a query with a text and no
\* embedding at most one.
C28_QueryEmbeddedOnce ==
    call.op \in EngineOps =>
        /\ IsStr(call.query) => Cardinality(EmbedsFor(0)) = 1
        /\ (IsDict(call.query) /\ Carried(call.query).dim > 0) => EmbedsFor(0) = {}
        /\ IsDict(call.query) => Cardinality(EmbedsFor(0)) <= 1

\* C29: for every integer top_n, negative ones included, and a non-empty
\* chunk list, the selection returns min(max(top_n, 0), number of chunks)
\* chunks, so never more than top_n.
C29_CountIsClampedTopN ==
    (call.op = "select_top_chunks" /\ call.chunks.items # <<>>) =>
        /\ ~call.escaped
        /\ Len(call.result) = Min(Max(call.top_n.value, 0), Len(call.chunks.items))

=============================================================================
